---- MODULE Spec2Model ----
(***************************************************************************)
(* The triage admission scheduler and doctor worker pool of server.js:     *)
(* the resource counters, the patient registry, the admission queue, the   *)
(* ready queue, the allocation pass and the doctor loops.  Every handler   *)
(* of the single-threaded event loop is one atomic action; a doctor loop   *)
(* is suspended only in its two awaits (the 500 ms poll and the treatment  *)
(* timer).                                                                 *)
(***************************************************************************)
EXTENDS Integers, Sequences, FiniteSets, TLC

\* ---- bounds of the model ----
MaxPatients == 3     \* registrations explored
MaxTotal == 2        \* largest bed / ventilator total passed to configure
MaxNeg == 2          \* configure also passes totals down to -MaxNeg
MaxDoctors == 2      \* largest doctor count passed to configure
MaxWorkers == 2      \* doctor loops created over a run
MaxRequests == 4     \* state-changing requests served over a run
Deeper == 3          \* further requests served in the runs of SpecPool

\* ---- program constants ----
NoHandle == -1                 \* assignedBed / assignedVentilator sentinel
NORMAL == 1
SERIOUS == 2
CRITICAL == 3

VARIABLES
    totalBeds, usedBeds, totalVentilators, usedVentilators,  \* Resources
    patientRecords,          \* Map id -> patient, ids are 1..Len
    waitingQueue,            \* array of {patient, sequence}; patient is a reference (its id)
    readyQueue,              \* array of patient ids
    systemRunning,
    numberOfDoctors,
    sequenceCounter,
    nextPatientId,
    activeTreatmentTimers,   \* Map pid -> timer handle (the doctor loop that set it)
    doctors,                 \* the doctor loops created so far, each at an await or terminated
                             \* (n: observation, the numberOfDoctors of the start that created it)
    requests,                \* state-changing requests served, counted against the budget
    log                      \* what the last handler did (observation only, never read by the program)

vars == <<totalBeds, usedBeds, totalVentilators, usedVentilators, patientRecords,
          waitingQueue, readyQueue, systemRunning, numberOfDoctors, sequenceCounter,
          nextPatientId, activeTreatmentTimers, doctors, requests, log>>

ValidTotals == 0..MaxTotal                 \* totals a well-formed request passes
AnyTotals == (0 - MaxNeg)..MaxTotal       \* the handler does not validate: negative totals pass too
DoctorCounts == 1..MaxDoctors
SeverityInputs == 0..4
PatientIds == 1..(MaxPatients + 1)

\* ---- pure helpers ----
intToSeverity(x) == IF x >= 3 THEN CRITICAL ELSE IF x = 2 THEN SERIOUS ELSE NORMAL

\* Number(severity || 1)
severityOrDefault(x) == IF x = 0 THEN 1 ELSE x

Min(a, b) == IF a < b THEN a ELSE b

\* ---- Resources ----
\* allocateBed: [used |-> the counter afterwards, ret |-> the returned handle]
allocateBed(used, total) ==
    IF used < total THEN [used |-> used + 1, ret |-> used + 1]
    ELSE [used |-> used, ret |-> NoHandle]

\* fault: the decrement is not floored at zero
releaseBed_Unfloored(used) == used - 1

releaseBed(used) == IF used > 0 THEN used - 1 ELSE used

allocateVentilator(used, total) ==
    IF used < total THEN [used |-> used + 1, ret |-> used + 1]
    ELSE [used |-> used, ret |-> NoHandle]

releaseVentilator(used) == IF used > 0 THEN used - 1 ELSE used

availableBeds(total, used) == total - used

availableVentilators(total, used) == total - used

\* ---- admission queue ----
\* fault: the severities are compared in ascending order
compareWaiting_Ascending(a, b, recs) ==
    IF recs[a.patient].severity # recs[b.patient].severity
    THEN recs[a.patient].severity - recs[b.patient].severity
    ELSE a.sequence - b.sequence

\* the comparator of sortWaitingQueue: negative when a goes before b
compareWaiting(a, b, recs) ==
    IF recs[a.patient].severity # recs[b.patient].severity
    THEN recs[b.patient].severity - recs[a.patient].severity
    ELSE a.sequence - b.sequence

RECURSIVE insertStable(_, _, _)
insertStable(e, q, recs) ==
    IF q = <<>> THEN <<e>>
    ELSE IF compareWaiting(e, Head(q), recs) < 0 THEN <<e>> \o q
    ELSE <<Head(q)>> \o insertStable(e, Tail(q), recs)

RECURSIVE sortFrom(_, _, _)
sortFrom(q, acc, recs) ==
    IF q = <<>> THEN acc
    ELSE sortFrom(Tail(q), insertStable(Head(q), acc, recs), recs)

\* fault: the queue is left in arrival order
sortWaitingQueue_Unsorted(q, recs) == q

\* Array.prototype.sort is stable
sortWaitingQueue(q, recs) == sortFrom(q, <<>>, recs)

\* ---- allocation engine ----
\* observation: no attempt was rolled back
NoAttempt == [ub |-> 0, uv |-> 0, wq |-> <<>>]

\* observation: the counters and the queue an attempt started from
Attempt(s) == [ub |-> s.ub, uv |-> s.uv, wq |-> s.wq]

\* The state an allocation pass works on: the totals (tb, tv), the used
\* counters (ub, uv), the admission queue, the registry, the ready queue, and
\* three observations: the ids the pass allocated, whether it rolled back, and the
\* counters and the queue as they were before the attempt it rolled back.
PassState(tb, tv, ub, uv, wq, recs, rq) ==
    [tb |-> tb, tv |-> tv, ub |-> ub, uv |-> uv, wq |-> wq, recs |-> recs, rq |-> rq,
     allocated |-> <<>>, rollback |-> FALSE, before |-> NoAttempt]

\* fault: no rollback, the head is admitted with the bed alone
ventilatorRefused_KeepsBed(s, top, bedUsed, ventUsed, shifted) ==
    LET id == s.recs[top.patient].id IN
    [s EXCEPT !.ub = bedUsed,
              !.uv = ventUsed,
              !.wq = shifted,
              !.recs[id] = [@ EXCEPT !.assignedBed = bedUsed,
                                     !.assignedVentilator = NoHandle,
                                     !.status = "Allocated"],
              !.rq = Append(@, id),
              !.allocated = Append(@, id)]

\* fault: the rollback puts the head back without releasing the bed
ventilatorRefused_NoRelease(s, top, bedUsed, ventUsed, shifted) ==
    [s EXCEPT !.ub = bedUsed,
              !.uv = ventUsed,
              !.wq = <<top>> \o shifted,
              !.rollback = TRUE]

\* lines 239-243: the ventilator was refused after the bed was taken and the
\* head was shifted off: release the bed, unshift the head, break
ventilatorRefused(s, top, bedUsed, ventUsed, shifted) ==
    [s EXCEPT !.ub = releaseBed(bedUsed),
              !.uv = ventUsed,
              !.wq = <<top>> \o shifted,
              !.rollback = TRUE]

\* lines 246-255: record the handles, mark Allocated, push the id on the ready queue
markAllocated(s, top, bedUsed, bedIndex, ventUsed, ventIndex, shifted) ==
    LET id == s.recs[top.patient].id IN
    [s EXCEPT !.ub = bedUsed,
              !.uv = ventUsed,
              !.wq = shifted,
              !.recs[id] = [@ EXCEPT !.assignedBed = bedIndex,
                                     !.assignedVentilator = ventIndex,
                                     !.status = "Allocated"],
              !.rq = Append(@, id),
              !.allocated = Append(@, id)]

\* fault: a work-conserving pass, which rolls the blocked head back and goes on
\* with the patients behind it
RECURSIVE tryAllocateResources_Skipping(_)
tryAllocateResources_Skipping(s) ==
    IF Len(s.wq) = 0 THEN s
    ELSE LET top == s.wq[1]
             p == s.recs[top.patient]
             bed == allocateBed(s.ub, s.tb)
         IN IF bed.ret = NoHandle THEN [s EXCEPT !.ub = bed.used]
            ELSE LET shifted == Tail(s.wq)
                     vent == IF p.requiresVentilator
                             THEN allocateVentilator(s.uv, s.tv)
                             ELSE [used |-> s.uv, ret |-> NoHandle]
                 IN IF p.requiresVentilator /\ vent.ret = NoHandle
                    THEN LET r == tryAllocateResources_Skipping(
                                      [s EXCEPT !.ub = releaseBed(bed.used),
                                                !.uv = vent.used,
                                                !.wq = shifted,
                                                !.rollback = TRUE])
                         IN [r EXCEPT !.wq = <<top>> \o r.wq]
                    ELSE tryAllocateResources_Skipping(
                             markAllocated(s, top, bed.used, bed.ret, vent.used, vent.ret, shifted))

RECURSIVE tryAllocateResources(_)
tryAllocateResources(s) ==
    IF Len(s.wq) = 0 THEN s
    ELSE LET top == s.wq[1]
             p == s.recs[top.patient]
             bed == allocateBed(s.ub, s.tb)
         IN IF bed.ret = NoHandle THEN [s EXCEPT !.ub = bed.used]
            ELSE LET shifted == Tail(s.wq)
                     vent == IF p.requiresVentilator
                             THEN allocateVentilator(s.uv, s.tv)
                             ELSE [used |-> s.uv, ret |-> NoHandle]
                 IN IF p.requiresVentilator /\ vent.ret = NoHandle
                    THEN [ventilatorRefused(s, top, bed.used, vent.used, shifted)
                             EXCEPT !.before = Attempt(s)]
                    ELSE tryAllocateResources(
                             markAllocated(s, top, bed.used, bed.ret, vent.used, vent.ret, shifted))

\* ---- the observation record ----
\* op: "register", "discharge" (administrative), "treated" (a treatment timer
\* fired) or "none"; the release fields describe the release of a discharge
\* before its allocation pass, the pass fields describe that pass.
NoLog ==
    [op |-> "none", ret |-> TRUE,
     heldBed |-> FALSE, heldVent |-> FALSE, bedsBefore |-> 0, ventsBefore |-> 0,
     bedsAfter |-> 0, ventsAfter |-> 0, cleared |-> FALSE,
     headBlocked |-> FALSE, allocated |-> <<>>, rollback |-> FALSE, before |-> NoAttempt]

\* the head of the queue cannot be fully allocated: no free bed, or it
\* requires a ventilator and none is free
HeadBlocked(s) ==
    /\ Len(s.wq) > 0
    /\ \/ availableBeds(s.tb, s.ub) <= 0
       \/ /\ s.recs[s.wq[1].patient].requiresVentilator
          /\ availableVentilators(s.tv, s.uv) <= 0

\* the pass part of the record: s0 is the state the pass started from, s1 its result
PassLog(l, s0, s1) ==
    [l EXCEPT !.headBlocked = HeadBlocked(s0),
              !.allocated = s1.allocated, !.rollback = s1.rollback, !.before = s1.before]

TypeOK ==
    /\ totalBeds \in Int /\ usedBeds \in Int
    /\ totalVentilators \in Int /\ usedVentilators \in Int
    /\ systemRunning \in BOOLEAN
    /\ nextPatientId = Len(patientRecords) + 1
    /\ sequenceCounter = Len(patientRecords)

\* The state after start-up: Resources.loadFromFile() has read the totals an
\* earlier configure saved (0,0 on a first run), the patients file is absent.
Init ==
    /\ totalBeds \in ValidTotals /\ usedBeds = 0
    /\ totalVentilators \in ValidTotals /\ usedVentilators = 0
    /\ patientRecords = <<>>
    /\ waitingQueue = <<>>
    /\ readyQueue = <<>>
    /\ systemRunning = FALSE
    /\ numberOfDoctors = 0
    /\ sequenceCounter = 0
    /\ nextPatientId = 1
    /\ activeTreatmentTimers = <<>>
    /\ doctors = <<>>
    /\ requests = 0
    /\ log = NoLog

\* one more request is served, within the budget of the exploration
Served == requests < MaxRequests /\ requests' = requests + 1

\* ---- POST /api/patients -> registerPatient ----
newPatient(id, seq, severity, requiresVentilator) ==
    [id |-> id,
     severity |-> intToSeverity(severityOrDefault(severity)),
     status |-> "Waiting",
     assignedBed |-> NoHandle,
     assignedVentilator |-> NoHandle,
     requiresVentilator |-> requiresVentilator,
     enqueuedSequence |-> seq]

registerPatient(severity, requiresVentilator) ==
    /\ Len(patientRecords) < MaxPatients
    /\ Served
    /\ LET p == newPatient(nextPatientId, sequenceCounter, severity, requiresVentilator)
           recs == Append(patientRecords, p)
           wq == sortWaitingQueue(
                    Append(waitingQueue, [patient |-> p.id, sequence |-> p.enqueuedSequence]),
                    recs)
           s0 == PassState(totalBeds, totalVentilators, usedBeds, usedVentilators,
                           wq, recs, readyQueue)
           s1 == tryAllocateResources(s0)
       IN /\ nextPatientId' = nextPatientId + 1
          /\ sequenceCounter' = sequenceCounter + 1
          /\ patientRecords' = s1.recs
          /\ waitingQueue' = s1.wq
          /\ readyQueue' = s1.rq
          /\ usedBeds' = s1.ub
          /\ usedVentilators' = s1.uv
          /\ log' = PassLog([NoLog EXCEPT !.op = "register"], s0, s1)
    /\ UNCHANGED <<totalBeds, totalVentilators, systemRunning, numberOfDoctors,
                   activeTreatmentTimers, doctors>>

\* ---- POST /api/patients/:id/discharge -> dischargePatient ----
\* fault: the handles are cleared without releasing the counters
dischargeRelease_KeepsCounters(p, ub, uv) ==
    [ub |-> ub,
     uv |-> uv,
     rec |-> [p EXCEPT !.assignedBed = NoHandle,
                       !.assignedVentilator = NoHandle,
                       !.status = "Discharged"]]

\* lines 401-409: release what the record holds, clear the handles, mark Discharged
dischargeRelease(p, ub, uv) ==
    [ub |-> IF p.assignedBed # NoHandle THEN releaseBed(ub) ELSE ub,
     uv |-> IF p.assignedVentilator # NoHandle THEN releaseVentilator(uv) ELSE uv,
     rec |-> [p EXCEPT !.assignedBed = NoHandle,
                       !.assignedVentilator = NoHandle,
                       !.status = "Discharged"]]

\* the release part of the record: p is the record before, r the result of the release
ReleaseLog(l, p, ub, uv, r) ==
    [l EXCEPT !.heldBed = (p.assignedBed # NoHandle),
              !.heldVent = (p.assignedVentilator # NoHandle),
              !.bedsBefore = ub, !.ventsBefore = uv,
              !.bedsAfter = r.ub, !.ventsAfter = r.uv,
              !.cleared = (r.rec.assignedBed = NoHandle /\ r.rec.assignedVentilator = NoHandle)]

\* fault: an unknown id still runs the allocation pass before returning false
dischargePatient_AlwaysPasses(id) ==
    /\ Served
    /\ LET known == id \in 1..Len(patientRecords)
           p == IF known THEN patientRecords[id] ELSE newPatient(0, 0, NORMAL, FALSE)
           r == dischargeRelease(p, usedBeds, usedVentilators)
           s0 == PassState(totalBeds, totalVentilators, r.ub, r.uv, waitingQueue,
                           IF known THEN [patientRecords EXCEPT ![id] = r.rec]
                           ELSE patientRecords, readyQueue)
           s1 == tryAllocateResources(s0)
       IN /\ patientRecords' = s1.recs
          /\ waitingQueue' = s1.wq
          /\ readyQueue' = s1.rq
          /\ usedBeds' = s1.ub
          /\ usedVentilators' = s1.uv
          /\ log' = IF known
                    THEN PassLog(ReleaseLog([NoLog EXCEPT !.op = "discharge"],
                                            p, usedBeds, usedVentilators, r), s0, s1)
                    ELSE [NoLog EXCEPT !.op = "discharge", !.ret = FALSE]
    /\ UNCHANGED <<totalBeds, totalVentilators, systemRunning, numberOfDoctors,
                   sequenceCounter, nextPatientId, activeTreatmentTimers, doctors>>

dischargePatient(id) ==
    /\ Served
    /\ IF id \notin 1..Len(patientRecords)
       THEN /\ log' = [NoLog EXCEPT !.op = "discharge", !.ret = FALSE]
            /\ UNCHANGED <<totalBeds, usedBeds, totalVentilators, usedVentilators,
                           patientRecords, waitingQueue, readyQueue, systemRunning,
                           numberOfDoctors, sequenceCounter, nextPatientId,
                           activeTreatmentTimers, doctors>>
       ELSE LET p == patientRecords[id]
                r == dischargeRelease(p, usedBeds, usedVentilators)
                s0 == PassState(totalBeds, totalVentilators, r.ub, r.uv, waitingQueue,
                                [patientRecords EXCEPT ![id] = r.rec], readyQueue)
                s1 == tryAllocateResources(s0)
            IN /\ patientRecords' = s1.recs
               /\ waitingQueue' = s1.wq
               /\ readyQueue' = s1.rq
               /\ usedBeds' = s1.ub
               /\ usedVentilators' = s1.uv
               /\ log' = PassLog(ReleaseLog([NoLog EXCEPT !.op = "discharge"],
                                            p, usedBeds, usedVentilators, r), s0, s1)
               /\ UNCHANGED <<totalBeds, totalVentilators, systemRunning, numberOfDoctors,
                              sequenceCounter, nextPatientId, activeTreatmentTimers, doctors>>

\* ---- POST /api/resources/configure ----
\* fault: the used counters are not clamped to the new totals
setTotals_Unclamped(beds, vents, ub, uv) ==
    [tb |-> beds, tv |-> vents, ub |-> ub, uv |-> uv]

setTotals(beds, vents, ub, uv) ==
    [tb |-> beds, tv |-> vents, ub |-> Min(ub, beds), uv |-> Min(uv, vents)]

configure(b, v, d) ==
    LET r == setTotals(b, v, usedBeds, usedVentilators) IN
    /\ Served
    /\ totalBeds' = r.tb
    /\ totalVentilators' = r.tv
    /\ usedBeds' = r.ub
    /\ usedVentilators' = r.uv
    /\ numberOfDoctors' = d
    /\ log' = NoLog
    /\ UNCHANGED <<patientRecords, waitingQueue, readyQueue, systemRunning,
                   sequenceCounter, nextPatientId, activeTreatmentTimers, doctors>>

\* ---- the doctor loops ----
\* What a doctor loop works on: the ready queue, the registry, the timer map
\* and the loops themselves.
LoopState(rq, recs, timers, ds) == [rq |-> rq, recs |-> recs, timers |-> timers, ds |-> ds]

setTimer(timers, pid, w) ==
    [x \in (DOMAIN timers) \cup {pid} |-> IF x = pid THEN w ELSE timers[x]]

deleteTimer(timers, pid) == [x \in (DOMAIN timers) \ {pid} |-> timers[x]]

\* fault: the loop reads the front of the ready queue without removing it
RECURSIVE doctorLoop_Peeks(_, _, _)
doctorLoop_Peeks(d, w, running) ==
    IF ~running
    THEN [d EXCEPT !.ds[w] = [@ EXCEPT !.pc = "terminated", !.pid = 0, !.timer = FALSE]]
    ELSE IF d.rq = <<>>
    THEN [d EXCEPT !.ds[w] = [@ EXCEPT !.pc = "polling", !.pid = 0, !.timer = FALSE]]
    ELSE LET pid == Head(d.rq)
             rest == Tail(d.rq)
         IN IF pid \notin 1..Len(d.recs)
            THEN doctorLoop_Peeks([d EXCEPT !.rq = rest], w, running)
            ELSE [d EXCEPT !.recs[pid].status = "In-Treatment",
                           !.timers = setTimer(@, pid, w),
                           !.ds[w] = [@ EXCEPT !.pc = "treating", !.pid = pid, !.timer = TRUE]]

\* lines 276-322: doctor loop w from the top of its while loop to its next await
RECURSIVE doctorLoop(_, _, _)
doctorLoop(d, w, running) ==
    IF ~running
    THEN [d EXCEPT !.ds[w] = [@ EXCEPT !.pc = "terminated", !.pid = 0, !.timer = FALSE]]
    ELSE IF d.rq = <<>>
    THEN [d EXCEPT !.ds[w] = [@ EXCEPT !.pc = "polling", !.pid = 0, !.timer = FALSE]]
    ELSE LET pid == Head(d.rq)
             rest == Tail(d.rq)
         IN IF pid \notin 1..Len(d.recs)
            THEN doctorLoop([d EXCEPT !.rq = rest], w, running)
            ELSE [d EXCEPT !.rq = rest,
                           !.recs[pid].status = "In-Treatment",
                           !.timers = setTimer(@, pid, w),
                           !.ds[w] = [@ EXCEPT !.pc = "treating", !.pid = pid, !.timer = TRUE]]

\* lines 270-329: create loops i..n, each run up to its first await
RECURSIVE createDoctors(_, _, _)
createDoctors(d, i, n) ==
    IF i > n THEN d
    ELSE LET w == Len(d.ds) + 1
             d1 == [d EXCEPT !.ds = Append(@, [pc |-> "created", pid |-> 0, timer |-> FALSE,
                                               n |-> n])]
         IN createDoctors(doctorLoop(d1, w, TRUE), i + 1, n)

\* POST /api/doctors/start -> startDoctorWorkers
startDoctorWorkers ==
    /\ totalBeds # 0
    /\ ~systemRunning
    /\ Served
    /\ Len(doctors) + numberOfDoctors <= MaxWorkers
    /\ LET d == createDoctors(LoopState(readyQueue, patientRecords, activeTreatmentTimers,
                                        doctors), 1, numberOfDoctors)
       IN /\ systemRunning' = TRUE
          /\ readyQueue' = d.rq
          /\ patientRecords' = d.recs
          /\ activeTreatmentTimers' = d.timers
          /\ doctors' = d.ds
          /\ log' = NoLog
    /\ UNCHANGED <<totalBeds, usedBeds, totalVentilators, usedVentilators, waitingQueue,
                   numberOfDoctors, sequenceCounter, nextPatientId>>

\* fault: the timer map is cleared without cancelling the timers
stopDoctorWorkers_KeepsTimers ==
    /\ systemRunning
    /\ Served
    /\ systemRunning' = FALSE
    /\ activeTreatmentTimers' = <<>>
    /\ log' = NoLog
    /\ UNCHANGED <<totalBeds, usedBeds, totalVentilators, usedVentilators, patientRecords,
                   waitingQueue, readyQueue, numberOfDoctors, sequenceCounter, nextPatientId,
                   doctors>>

\* POST /api/shutdown -> stopDoctorWorkers
stopDoctorWorkers ==
    /\ systemRunning
    /\ Served
    /\ systemRunning' = FALSE
    /\ doctors' = [w \in 1..Len(doctors) |->
                     IF \E pid \in DOMAIN activeTreatmentTimers : activeTreatmentTimers[pid] = w
                     THEN [doctors[w] EXCEPT !.timer = FALSE]
                     ELSE doctors[w]]
    /\ activeTreatmentTimers' = <<>>
    /\ log' = NoLog
    /\ UNCHANGED <<totalBeds, usedBeds, totalVentilators, usedVentilators, patientRecords,
                   waitingQueue, readyQueue, numberOfDoctors, sequenceCounter, nextPatientId>>

\* line 280: the 500 ms poll of doctor loop w elapses
pollWake(w) ==
    /\ doctors[w].pc = "polling"
    /\ LET d == doctorLoop(LoopState(readyQueue, patientRecords, activeTreatmentTimers,
                                     doctors), w, systemRunning)
       IN /\ readyQueue' = d.rq
          /\ patientRecords' = d.recs
          /\ activeTreatmentTimers' = d.timers
          /\ doctors' = d.ds
          /\ log' = NoLog
    /\ UNCHANGED <<totalBeds, usedBeds, totalVentilators, usedVentilators, waitingQueue,
                   systemRunning, numberOfDoctors, sequenceCounter, nextPatientId, requests>>

\* fault: the ventilator handle is not cleared
treatmentRelease_KeepsVentilator(p, ub, uv) ==
    [ub |-> IF p.assignedBed # NoHandle THEN releaseBed(ub) ELSE ub,
     uv |-> IF p.assignedVentilator # NoHandle THEN releaseVentilator(uv) ELSE uv,
     rec |-> [p EXCEPT !.status = "Discharged",
                       !.assignedBed = NoHandle]]

\* fault: the timer callback clears the handles without releasing the counters
treatmentRelease_KeepsCounters(p, ub, uv) ==
    [ub |-> ub,
     uv |-> uv,
     rec |-> [p EXCEPT !.status = "Discharged",
                       !.assignedBed = NoHandle,
                       !.assignedVentilator = NoHandle]]

\* lines 296-307: the timer callback's release
treatmentRelease(p, ub, uv) ==
    [ub |-> IF p.assignedBed # NoHandle THEN releaseBed(ub) ELSE ub,
     uv |-> IF p.assignedVentilator # NoHandle THEN releaseVentilator(uv) ELSE uv,
     rec |-> [p EXCEPT !.status = "Discharged",
                       !.assignedBed = NoHandle,
                       !.assignedVentilator = NoHandle]]

\* lines 294-319: the treatment timer of doctor loop w fires, then the loop resumes
treatmentTimer(w) ==
    /\ doctors[w].pc = "treating"
    /\ doctors[w].timer
    /\ LET pid == doctors[w].pid
           p == patientRecords[pid]
           r == treatmentRelease(p, usedBeds, usedVentilators)
           s0 == PassState(totalBeds, totalVentilators, r.ub, r.uv, waitingQueue,
                           [patientRecords EXCEPT ![pid] = r.rec], readyQueue)
           s1 == tryAllocateResources(s0)
           d == doctorLoop(LoopState(s1.rq, s1.recs, deleteTimer(activeTreatmentTimers, pid),
                                     doctors), w, systemRunning)
       IN /\ usedBeds' = s1.ub
          /\ usedVentilators' = s1.uv
          /\ waitingQueue' = s1.wq
          /\ readyQueue' = d.rq
          /\ patientRecords' = d.recs
          /\ activeTreatmentTimers' = d.timers
          /\ doctors' = d.ds
          /\ log' = PassLog(ReleaseLog([NoLog EXCEPT !.op = "treated"],
                                       p, usedBeds, usedVentilators, r), s0, s1)
    /\ UNCHANGED <<totalBeds, totalVentilators, systemRunning, numberOfDoctors,
                   sequenceCounter, nextPatientId, requests>>

\* ---- GET /api/queue/position/:id ----
queuePosition ==
    /\ waitingQueue' = sortWaitingQueue(waitingQueue, patientRecords)
    /\ UNCHANGED <<totalBeds, usedBeds, totalVentilators, usedVentilators, patientRecords,
                   readyQueue, systemRunning, numberOfDoctors, sequenceCounter,
                   nextPatientId, activeTreatmentTimers, doctors, requests, log>>

Next ==
    \/ \E sev \in SeverityInputs, rv \in BOOLEAN : registerPatient(sev, rv)
    \/ \E id \in PatientIds : dischargePatient(id)
    \/ \E b \in ValidTotals, v \in ValidTotals, d \in DoctorCounts : configure(b, v, d)
    \/ startDoctorWorkers
    \/ stopDoctorWorkers
    \/ \E w \in 1..Len(doctors) : pollWake(w)
    \/ \E w \in 1..Len(doctors) : treatmentTimer(w)
    \/ queuePosition

Spec == Init /\ [][Next]_vars

\* the same handlers, configure also being passed negative totals
NextAnyTotals ==
    \/ \E sev \in SeverityInputs, rv \in BOOLEAN : registerPatient(sev, rv)
    \/ \E id \in PatientIds : dischargePatient(id)
    \/ \E b \in AnyTotals, v \in AnyTotals, d \in DoctorCounts : configure(b, v, d)
    \/ startDoctorWorkers
    \/ stopDoctorWorkers
    \/ \E w \in 1..Len(doctors) : pollWake(w)
    \/ \E w \in 1..Len(doctors) : treatmentTimer(w)
    \/ queuePosition

SpecAnyTotals == Init /\ [][NextAnyTotals]_vars

\* the same handlers, configure being passed the totals already in force (only
\* the doctor count changes): no reconfiguration ever clamps a used counter
NextSteadyTotals ==
    \/ \E sev \in SeverityInputs, rv \in BOOLEAN : registerPatient(sev, rv)
    \/ \E id \in PatientIds : dischargePatient(id)
    \/ \E d \in DoctorCounts : configure(totalBeds, totalVentilators, d)
    \/ startDoctorWorkers
    \/ stopDoctorWorkers
    \/ \E w \in 1..Len(doctors) : pollWake(w)
    \/ \E w \in 1..Len(doctors) : treatmentTimer(w)
    \/ queuePosition

SpecSteadyTotals == Init /\ [][NextSteadyTotals]_vars

\* the same handlers, configure never being passed a total below the used count:
\* a total is kept or raised, no used counter is clamped
NextNoLowering ==
    \/ \E sev \in SeverityInputs, rv \in BOOLEAN : registerPatient(sev, rv)
    \/ \E id \in PatientIds : dischargePatient(id)
    \/ \E b \in ValidTotals, v \in ValidTotals, d \in DoctorCounts :
          b >= usedBeds /\ v >= usedVentilators /\ configure(b, v, d)
    \/ startDoctorWorkers
    \/ stopDoctorWorkers
    \/ \E w \in 1..Len(doctors) : pollWake(w)
    \/ \E w \in 1..Len(doctors) : treatmentTimer(w)
    \/ queuePosition

SpecNoLowering == Init /\ [][NextNoLowering]_vars

\* ---- the life cycle of the pool, explored deeper ----
\* Start-up without ventilators; the budget of requests is larger by Deeper.
InitPool ==
    /\ totalBeds \in ValidTotals /\ usedBeds = 0
    /\ totalVentilators = 0 /\ usedVentilators = 0
    /\ patientRecords = <<>>
    /\ waitingQueue = <<>>
    /\ readyQueue = <<>>
    /\ systemRunning = FALSE
    /\ numberOfDoctors = 0
    /\ sequenceCounter = 0
    /\ nextPatientId = 1
    /\ activeTreatmentTimers = <<>>
    /\ doctors = <<>>
    /\ requests = 0 - Deeper
    /\ log = NoLog

\* the same handlers: the patients are NORMAL or CRITICAL and need no ventilator,
\* configure is passed the totals in force
NextPool ==
    \/ \E sev \in {NORMAL, CRITICAL} : registerPatient(sev, FALSE)
    \/ \E id \in PatientIds : dischargePatient(id)
    \/ \E d \in DoctorCounts : configure(totalBeds, totalVentilators, d)
    \/ startDoctorWorkers
    \/ stopDoctorWorkers
    \/ \E w \in 1..Len(doctors) : pollWake(w)
    \/ \E w \in 1..Len(doctors) : treatmentTimer(w)
    \/ queuePosition

SpecPool == InitPool /\ [][NextPool]_vars

\* ---- a pool that is never stopped, under fair scheduling ----
\* The same handlers without the shutdown; the patients are NORMAL or CRITICAL,
\* configure is passed the totals in force, so the totals are never reconfigured.  The event loop runs every timer
\* that is due: a poll that has elapsed and a treatment timer that has expired are
\* eventually served.
NextLive ==
    \/ \E sev \in {NORMAL, CRITICAL}, rv \in BOOLEAN : registerPatient(sev, rv)
    \/ \E id \in PatientIds : dischargePatient(id)
    \/ \E d \in DoctorCounts : configure(totalBeds, totalVentilators, d)
    \/ startDoctorWorkers
    \/ \E w \in 1..Len(doctors) : pollWake(w)
    \/ \E w \in 1..Len(doctors) : treatmentTimer(w)
    \/ queuePosition

Fairness ==
    \A w \in 1..MaxWorkers :
        /\ WF_vars(w \in DOMAIN doctors /\ pollWake(w))
        /\ WF_vars(w \in DOMAIN doctors /\ treatmentTimer(w))

SpecLive == Init /\ [][NextLive]_vars /\ Fairness

\* ---- vocabulary of the properties ----
Ids == 1..Len(patientRecords)

HoldsBed(i) == patientRecords[i].assignedBed # NoHandle

HoldsVentilator(i) == patientRecords[i].assignedVentilator # NoHandle

Admitted(i) == patientRecords[i].status \in {"Allocated", "In-Treatment"}

StatusRank(st) ==
    CASE st = "Waiting" -> 0
      [] st = "Allocated" -> 1
      [] st = "In-Treatment" -> 2
      [] st = "Discharged" -> 3

Discharging == log.op \in {"discharge", "treated"} /\ log.ret

\* C1: in every reachable state 0 <= usedBeds <= totalBeds and
\* 0 <= usedVentilators <= totalVentilators.
C1_ResourceBounds ==
    /\ 0 <= usedBeds /\ usedBeds <= totalBeds
    /\ 0 <= usedVentilators /\ usedVentilators <= totalVentilators

\* C2: all-or-nothing allocation: a patient that requires a ventilator is never
\* Allocated or In-Treatment with a bed handle and no ventilator handle; it holds
\* both handles or neither, and a Waiting patient holds neither.
C2_AllOrNothing ==
    \A i \in Ids :
        /\ patientRecords[i].requiresVentilator =>
              /\ (Admitted(i) /\ HoldsBed(i)) => HoldsVentilator(i)
              /\ HoldsBed(i) <=> HoldsVentilator(i)
        /\ patientRecords[i].status = "Waiting" => ~HoldsBed(i) /\ ~HoldsVentilator(i)

\* a pass allocated bed and ventilator to one patient and rolled back the next,
\* which stays Waiting with neither
C2_Witness ==
    /\ log.rollback
    /\ Len(log.allocated) > 0
    /\ \A k \in 1..Len(log.allocated) :
          LET i == log.allocated[k] IN
          /\ patientRecords[i].requiresVentilator
          /\ patientRecords[i].status = "Allocated"
          /\ HoldsBed(i) /\ HoldsVentilator(i)
    /\ Len(waitingQueue) > 0
    /\ patientRecords[waitingQueue[1].patient].requiresVentilator
    /\ patientRecords[waitingQueue[1].patient].status = "Waiting"
    /\ ~HoldsBed(waitingQueue[1].patient)

\* C3: head-of-line blocking: a pass that starts with a head that cannot be fully
\* allocated allocates nobody, neither the head nor anyone behind it.
C3_HeadOfLineBlocking == log.headBlocked => log.allocated = <<>>

\* the head is blocked on the ventilator while a bed is free and the Waiting
\* patient behind it needs no ventilator
C3_Witness ==
    /\ log.headBlocked
    /\ log.rollback
    /\ Len(waitingQueue) >= 2
    /\ availableBeds(totalBeds, usedBeds) > 0
    /\ ~patientRecords[waitingQueue[2].patient].requiresVentilator
    /\ patientRecords[waitingQueue[2].patient].status = "Waiting"

\* C4: the admission queue is ordered by severity descending, then arrival
\* sequence ascending.
C4_QueueOrdered ==
    \A i \in 1..Len(waitingQueue), j \in 1..Len(waitingQueue) :
        i < j =>
            LET a == patientRecords[waitingQueue[i].patient]
                b == patientRecords[waitingQueue[j].patient]
            IN \/ a.severity > b.severity
               \/ /\ a.severity = b.severity
                  /\ waitingQueue[i].sequence < waitingQueue[j].sequence

\* after a rollback pushed the head back, a later arrival stands before an
\* earlier one in a queue of two tiers
C4_Witness ==
    /\ log.rollback
    /\ Len(waitingQueue) >= 2
    /\ \E i \in 1..Len(waitingQueue), j \in 1..Len(waitingQueue) :
          /\ i < j
          /\ waitingQueue[i].sequence > waitingQueue[j].sequence

\* C5: no two patients hold the same bed handle, and no two hold the same
\* ventilator handle.
C5_UniqueHandles ==
    \A i \in Ids, j \in Ids :
        i # j =>
            /\ (HoldsBed(i) /\ HoldsBed(j)) =>
                  patientRecords[i].assignedBed # patientRecords[j].assignedBed
            /\ (HoldsVentilator(i) /\ HoldsVentilator(j)) =>
                  patientRecords[i].assignedVentilator # patientRecords[j].assignedVentilator

\* C6: a patient's status never moves backwards along Waiting, Allocated,
\* In-Treatment, Discharged; in particular Discharged is terminal.
C6_ForwardOnly ==
    [][\A i \in Ids :
          StatusRank(patientRecords'[i].status) >= StatusRank(patientRecords[i].status)]_vars

\* C7: every entry of the admission queue refers to a patient whose status is Waiting.
C7_QueueOnlyWaiting ==
    \A k \in 1..Len(waitingQueue) :
        patientRecords[waitingQueue[k].patient].status = "Waiting"

\* C8: a patient holds a bed handle if and only if its status is Allocated or
\* In-Treatment.
C8_BedIffAdmitted == \A i \in Ids : HoldsBed(i) <=> Admitted(i)

\* C9: a patient holds a ventilator handle only if it requires a ventilator and
\* its status is Allocated or In-Treatment.
C9_VentilatorOnlyIfRequired ==
    \A i \in Ids :
        HoldsVentilator(i) => (patientRecords[i].requiresVentilator /\ Admitted(i))

\* a patient under treatment holds a ventilator while another was discharged
C9_Witness ==
    /\ \E i \in Ids : HoldsVentilator(i) /\ patientRecords[i].status = "In-Treatment"
    /\ \E j \in Ids : patientRecords[j].requiresVentilator
                      /\ patientRecords[j].status = "Discharged"

\* C10 as claimed: a discharge drops usedBeds by 1 if the patient held a bed and by
\* 0 otherwise, usedVentilators likewise, and clears the handles.
C10_ReleasesExactlyHeld ==
    Discharging =>
        /\ log.bedsBefore - log.bedsAfter = (IF log.heldBed THEN 1 ELSE 0)
        /\ log.ventsBefore - log.ventsAfter = (IF log.heldVent THEN 1 ELSE 0)
        /\ log.cleared

\* C10 as amended: a discharge drops usedBeds by 1 if the patient held a bed and
\* usedBeds was positive, by 0 otherwise, usedVentilators likewise, and clears the
\* handles.
C10_ReleasesHeldFloored ==
    Discharging =>
        /\ log.bedsBefore - log.bedsAfter =
              (IF log.heldBed /\ log.bedsBefore > 0 THEN 1 ELSE 0)
        /\ log.ventsBefore - log.ventsAfter =
              (IF log.heldVent /\ log.ventsBefore > 0 THEN 1 ELSE 0)
        /\ log.cleared

\* a treatment timer discharged a patient that held a bed and a ventilator, each
\* counter dropping by one
C10_Witness ==
    /\ log.op = "treated"
    /\ log.heldBed /\ log.heldVent
    /\ log.bedsBefore - log.bedsAfter = 1
    /\ log.ventsBefore - log.ventsAfter = 1
    /\ log.cleared

\* the state as an allocation pass sees it
Current ==
    PassState(totalBeds, totalVentilators, usedBeds, usedVentilators, waitingQueue,
              patientRecords, readyQueue)

\* C11: cascade: at the end of a unit of work that freed a resource (a treatment
\* completion or an administrative discharge) the admission queue is empty or its
\* head cannot be fully allocated.
C11_Cascade == Discharging => (Len(waitingQueue) = 0 \/ HeadBlocked(Current))

\* the ids in the admission queue, the ids in the ready queue
QueuedIds(q) == {q[k].patient : k \in DOMAIN q}

ReadyIds(q) == {q[k] : k \in DOMAIN q}

\* doctor loop w has patient i under treatment
Treats(ds, w, i) == ds[w].pc = "treating" /\ ds[w].pid = i

\* in this step doctor loop w receives patient i from the ready queue
Receives(w, i) ==
    /\ Treats(doctors', w, i)
    /\ w \in 1..Len(doctors) => ~Treats(doctors, w, i)

\* C12: the ready-queue pop is exclusive: an id that leaves the ready queue is
\* received by exactly one doctor loop, a loop receives only an id that was in the
\* ready queue, no two loops treat the same patient at once, and no id is treated
\* twice: the ready queue holds an id at most once, an id is pushed only as it
\* leaves the admission queue, which it never re-enters, and an id in the ready
\* queue is under treatment in no loop.
C12_ExclusivePop ==
    /\ [](/\ \A j \in DOMAIN readyQueue, k \in DOMAIN readyQueue :
                j # k => readyQueue[j] # readyQueue[k]
          /\ \A j \in DOMAIN waitingQueue, k \in DOMAIN waitingQueue :
                j # k => waitingQueue[j].patient # waitingQueue[k].patient
          /\ \A v \in DOMAIN doctors, w \in DOMAIN doctors :
                (v # w /\ doctors[v].pc = "treating" /\ doctors[w].pc = "treating")
                    => doctors[v].pid # doctors[w].pid
          /\ \A w \in DOMAIN doctors, i \in ReadyIds(readyQueue) : ~Treats(doctors, w, i)
          /\ QueuedIds(waitingQueue) \cap ReadyIds(readyQueue) = {})
    /\ [][\A i \in 1..Len(patientRecords') :
            /\ (i \in ReadyIds(readyQueue) /\ i \notin ReadyIds(readyQueue'))
                  => Cardinality({w \in DOMAIN doctors' : Receives(w, i)}) = 1
            /\ \A w \in DOMAIN doctors' :
                  Receives(w, i) =>
                      \/ i \in ReadyIds(readyQueue)
                      \/ i \in QueuedIds(waitingQueue) \ QueuedIds(waitingQueue')
            /\ (i \in ReadyIds(readyQueue') /\ i \notin ReadyIds(readyQueue))
                  => i \notin QueuedIds(waitingQueue')
            /\ (i \in Ids /\ i \in QueuedIds(waitingQueue'))
                  => i \in QueuedIds(waitingQueue)]_vars

\* two doctor loops of one pool treat two different patients at once
C12_Witness ==
    \E v \in DOMAIN doctors, w \in DOMAIN doctors :
        /\ v # w
        /\ doctors[v].pc = "treating" /\ doctors[v].timer
        /\ doctors[w].pc = "treating" /\ doctors[w].timer
        /\ doctors[v].pid # doctors[w].pid

\* patient j goes before patient k in the admission order
Precedes(j, k) ==
    \/ patientRecords[j].severity > patientRecords[k].severity
    \/ /\ patientRecords[j].severity = patientRecords[k].severity
       /\ patientRecords[j].enqueuedSequence < patientRecords[k].enqueuedSequence

\* C13: admission respects the priority order: when a pass has moved a patient to
\* Allocated, no patient that is still Waiting precedes it (higher severity, or
\* equal severity and smaller arrival sequence).
C13_AdmissionInOrder ==
    \A n \in DOMAIN log.allocated, j \in Ids :
        patientRecords[j].status = "Waiting" => ~Precedes(j, log.allocated[n])

\* a pass admitted a later arrival of a higher tier while an earlier arrival, which
\* needs no ventilator, is still Waiting
C13_Witness ==
    \E n \in DOMAIN log.allocated, j \in Ids :
        /\ patientRecords[j].status = "Waiting"
        /\ ~patientRecords[j].requiresVentilator
        /\ patientRecords[j].enqueuedSequence
              < patientRecords[log.allocated[n]].enqueuedSequence
        /\ patientRecords[j].severity < patientRecords[log.allocated[n]].severity
        /\ patientRecords[log.allocated[n]].status = "Allocated"

\* patient i is In-Treatment and no pending treatment timer will discharge it
Stranded(i) ==
    /\ patientRecords[i].status = "In-Treatment"
    /\ \A w \in DOMAIN doctors : Treats(doctors, w, i) => ~doctors[w].timer

\* C14: stopping the pool is abrupt: the stop leaves every patient record and both
\* used counters as they were and leaves every In-Treatment patient without a
\* pending timer; from then on such a patient keeps its status and handles and
\* stays out of the ready queue, whatever runs (a restart included), until an
\* administrative discharge makes it Discharged.
C14_AbruptStop ==
    /\ [][(systemRunning /\ ~systemRunning') =>
              /\ patientRecords' = patientRecords
              /\ usedBeds' = usedBeds /\ usedVentilators' = usedVentilators
              /\ \A i \in Ids : patientRecords[i].status = "In-Treatment" => Stranded(i)']_vars
    /\ [][\A i \in Ids :
              Stranded(i) =>
                  /\ i \notin ReadyIds(readyQueue')
                  /\ i \notin QueuedIds(waitingQueue')
                  /\ \/ patientRecords'[i] = patientRecords[i] /\ Stranded(i)'
                     \/ /\ log'.op = "discharge"
                        /\ patientRecords'[i].status = "Discharged"]_vars

\* the pool was stopped during a treatment and started again: the patient is still
\* In-Treatment with its bed, its doctor loop suspended on the cancelled timer,
\* while a loop of the new pool treats another patient
C14_Witness ==
    /\ systemRunning
    /\ \E i \in Ids, w \in DOMAIN doctors, v \in DOMAIN doctors :
          /\ Stranded(i) /\ HoldsBed(i)
          /\ Treats(doctors, w, i)
          /\ usedBeds > 0
          /\ doctors[v].pc = "treating" /\ doctors[v].timer /\ doctors[v].pid # i

\* ---- the scenario of C15: 2 beds, 0 ventilators, no workers running ----
ScenarioPool ==
    /\ totalBeds = 2 /\ totalVentilators = 0 /\ usedVentilators = 0
    /\ ~systemRunning

\* patient i of the registry has this severity, needs no ventilator, has this status
ScenarioPatient(recs, i, severity, status) ==
    /\ recs[i].severity = severity
    /\ ~recs[i].requiresVentilator
    /\ recs[i].status = status
    /\ recs[i].assignedVentilator = NoHandle
    /\ (recs[i].assignedBed # NoHandle) <=> (status = "Allocated")

\* this step registers a patient of this severity that needs no ventilator
Registers(severity) ==
    /\ Len(patientRecords') = Len(patientRecords) + 1
    /\ patientRecords'[Len(patientRecords')].severity = severity
    /\ ~patientRecords'[Len(patientRecords')].requiresVentilator

ScenarioEmpty ==
    /\ ScenarioPool
    /\ patientRecords = <<>> /\ waitingQueue = <<>> /\ usedBeds = 0

ScenarioA ==
    /\ ScenarioPool
    /\ Len(patientRecords) = 1
    /\ ScenarioPatient(patientRecords, 1, CRITICAL, "Allocated")
    /\ waitingQueue = <<>> /\ usedBeds = 1

ScenarioAB ==
    /\ ScenarioPool
    /\ Len(patientRecords) = 2
    /\ ScenarioPatient(patientRecords, 1, CRITICAL, "Allocated")
    /\ ScenarioPatient(patientRecords, 2, NORMAL, "Allocated")
    /\ waitingQueue = <<>> /\ usedBeds = 2

ScenarioABC ==
    /\ ScenarioPool
    /\ Len(patientRecords) = 3
    /\ ScenarioPatient(patientRecords, 1, CRITICAL, "Allocated")
    /\ ScenarioPatient(patientRecords, 2, NORMAL, "Allocated")
    /\ ScenarioPatient(patientRecords, 3, SERIOUS, "Waiting")
    /\ Len(waitingQueue) = 1 /\ waitingQueue[1].patient = 3
    /\ usedBeds = 2

ScenarioEnd ==
    /\ ScenarioPool
    /\ Len(patientRecords) = 3
    /\ ScenarioPatient(patientRecords, 1, CRITICAL, "Discharged")
    /\ ScenarioPatient(patientRecords, 2, NORMAL, "Allocated")
    /\ ScenarioPatient(patientRecords, 3, SERIOUS, "Allocated")
    /\ waitingQueue = <<>>
    /\ usedBeds = 2
    /\ log.op = "discharge" /\ log.heldBed
    /\ log.bedsBefore - log.bedsAfter = 1
    /\ log.allocated = <<3>>

\* C15: from the empty system with 2 beds, 0 ventilators and no workers running,
\* registering A (CRITICAL) then B (NORMAL) leaves both Allocated with a bed and
\* both beds used, registering C (SERIOUS) leaves C Waiting at queue position 0, and
\* the administrative discharge of A frees A's bed and in the same step makes C
\* Allocated with a bed and the admission queue empty.
C15_Scenario ==
    [][/\ (ScenarioEmpty /\ Registers(CRITICAL)) => ScenarioA'
       /\ (ScenarioA /\ Registers(NORMAL)) => ScenarioAB'
       /\ (ScenarioAB /\ Registers(SERIOUS)) => ScenarioABC'
       /\ (ScenarioABC /\ log'.op = "discharge"
              /\ patientRecords'[1].status = "Discharged") => ScenarioEnd']_vars

\* the scenario has run to its end: the discharge of A admitted C
C15_Witness == ScenarioEnd /\ readyQueue = <<1, 2, 3>>

\* C16: dischargePatient with an id that is not in the registry returns false and
\* changes nothing: the counters, both queues and every patient record are as
\* before (no allocation pass has touched them).
C16_UnknownIdNoChange ==
    [][\A id \in PatientIds :
          (id \notin Ids /\ dischargePatient(id)) =>
              /\ ~log'.ret
              /\ log'.allocated = <<>> /\ ~log'.rollback
              /\ UNCHANGED <<totalBeds, usedBeds, totalVentilators, usedVentilators,
                             patientRecords, waitingQueue, readyQueue, systemRunning,
                             numberOfDoctors, sequenceCounter, nextPatientId,
                             activeTreatmentTimers, doctors>>]_vars

\* an unknown id was discharged while the head of the queue was Waiting and could
\* be allocated (a bed was added by configure): it is still Waiting
C16_Witness ==
    /\ log.op = "discharge" /\ ~log.ret
    /\ Len(waitingQueue) > 0
    /\ patientRecords[waitingQueue[1].patient].status = "Waiting"
    /\ ~HeadBlocked(Current)

\* C17: setTotals(beds, vents) replaces both totals and sets each used counter to
\* min(old used, new total); no patient record changes and the admission queue and
\* the ready queue are unchanged.
C17_SetTotalsFrame ==
    [][\A b \in AnyTotals, v \in AnyTotals :
          configure(b, v, numberOfDoctors') =>
              /\ totalBeds' = b /\ totalVentilators' = v
              /\ usedBeds' = (IF usedBeds < b THEN usedBeds ELSE b)
              /\ usedVentilators' = (IF usedVentilators < v THEN usedVentilators ELSE v)
              /\ UNCHANGED <<patientRecords, waitingQueue, readyQueue>>]_vars

\* a reconfiguration has lowered the bed total below the number of holders: the
\* counter was clamped to the new total and the holders kept status and handle
C17_Witness ==
    /\ log.op = "none"
    /\ usedBeds = totalBeds
    /\ Cardinality({i \in Ids : HoldsBed(i) /\ patientRecords[i].status = "Allocated"})
          > usedBeds

\* C18: rollback on ventilator failure: when a pass took a bed for the head and the
\* head's ventilator was refused, the pass ends with usedBeds and usedVentilators
\* as they were before that attempt, the admission queue as it was (the head in
\* front, the rest in the same order), the head still Waiting with no handle and
\* not in the ready queue.
C18_Rollback ==
    log.rollback =>
        /\ usedBeds = log.before.ub
        /\ usedVentilators = log.before.uv
        /\ waitingQueue = log.before.wq
        /\ Len(waitingQueue) > 0
        /\ LET head == waitingQueue[1].patient
           IN /\ patientRecords[head].status = "Waiting"
              /\ ~HoldsBed(head) /\ ~HoldsVentilator(head)
              /\ head \notin ReadyIds(readyQueue)

\* the part of C18 that does not depend on who stands at the head: the rollback
\* restores the counters and the queue
C18_RollbackRestores ==
    log.rollback =>
        /\ usedBeds = log.before.ub
        /\ usedVentilators = log.before.uv
        /\ waitingQueue = log.before.wq

\* doctor loop w can still run: it is in its poll, or awaits a pending timer
Live(w) == doctors[w].pc = "polling" \/ (doctors[w].pc = "treating" /\ doctors[w].timer)

\* C20: the number of live doctor loops never exceeds the worker count N of the
\* most recent start (the loops of a stopped pool do not run beside those of a
\* later start).
C20_LiveWithinCount ==
    Cardinality({w \in DOMAIN doctors : Live(w)})
        <= (IF doctors = <<>> THEN 0 ELSE doctors[Len(doctors)].n)

\* the pool is started with at least one doctor loop
PoolLive == systemRunning /\ Len(doctors) >= 1

\* the needs of patient i fit the configured totals
Fits(i) ==
    /\ totalBeds >= 1
    /\ patientRecords[i].requiresVentilator => totalVentilators >= 1

\* an entry of the admission queue ahead of patient i belongs to a patient whose
\* needs do not fit the totals
BehindMisfit(i) ==
    \E j \in DOMAIN waitingQueue, k \in DOMAIN waitingQueue :
        /\ waitingQueue[k].patient = i
        /\ j < k
        /\ ~Fits(waitingQueue[j].patient)

\* patient i is Discharged and holds nothing
Released(i) ==
    patientRecords[i].status = "Discharged" /\ ~HoldsBed(i) /\ ~HoldsVentilator(i)

\* C19 as claimed: with the pool started and never stopped, the totals not
\* reconfigured and finitely many registrations, under fair scheduling every
\* patient whose needs fit the totals (an Allocated patient, or a Waiting patient
\* with totalBeds >= 1, and totalVentilators >= 1 if it requires a ventilator) is
\* eventually Discharged with its resources released, for good once the
\* registrations have ended.
C19_Liveness == <>[](PoolLive => \A i \in Ids : Fits(i) => Released(i))

\* C19 as amended: the same, except that a patient may stay Waiting for ever behind
\* a queue entry whose patient does not fit the totals.
C19_LivenessUnlessBehindMisfit ==
    <>[](PoolLive =>
            \A i \in Ids :
                Fits(i) =>
                    \/ Released(i)
                    \/ patientRecords[i].status = "Waiting" /\ BehindMisfit(i))

\* with one bed, the pool treated a patient, its release admitted the patient that
\* waited, and the pool treated that one too: everyone is Discharged
C19_Witness ==
    /\ PoolLive
    /\ totalBeds = 1 /\ usedBeds = 0
    /\ Len(patientRecords) >= 2
    /\ \A i \in Ids : patientRecords[i].status = "Discharged" /\ ~HoldsBed(i)
    /\ waitingQueue = <<>> /\ readyQueue = <<>>
    /\ log.op = "treated"

BedHolders == {i \in Ids : HoldsBed(i)}

VentilatorHolders == {i \in Ids : HoldsVentilator(i)}

\* C21: without a reconfiguration that lowers a total below its used count,
\* usedBeds is the number of patients whose assignedBed is set and usedVentilators
\* the number of patients whose assignedVentilator is set; so the holders never
\* outnumber the totals.
C21_CountersMatchHolders ==
    /\ usedBeds = Cardinality(BedHolders)
    /\ usedVentilators = Cardinality(VentilatorHolders)
    /\ Cardinality(BedHolders) <= totalBeds
    /\ Cardinality(VentilatorHolders) <= totalVentilators

\* a treatment completed and released a bed and a ventilator while another patient
\* holds a bed and a ventilator: each counter is 1 with two patients served
C21_Witness ==
    /\ log.op = "treated" /\ log.heldBed /\ log.heldVent
    /\ log.bedsBefore - log.bedsAfter = 1
    /\ Cardinality(BedHolders) = 1 /\ usedBeds = 1
    /\ Cardinality(VentilatorHolders) = 1 /\ usedVentilators = 1
    /\ \E i \in Ids : patientRecords[i].status = "Discharged"
                      /\ patientRecords[i].requiresVentilator

====
